---------------------------- MODULE Spec2Model ----------------------------
(***************************************************************************)
(* A model of src/index.tsx: the PendulumSimulation object, the query      *)
(* string its init() reads through Config, and the browser's queue of      *)
(* requestAnimationFrame callbacks.                                        *)
(*                                                                         *)
(* Numbers.  A JavaScript number is modelled as a record: an integer, NaN  *)
(* or undefined (what indexing past the end of an array yields).  Angles   *)
(* are counted in hundredths of a turn; heights and widths in halves (the  *)
(* default widthGap is -0.5); Math.cos and Math.sin in five-hundredths,    *)
(* rounded, and exact on every quarter turn; so a coordinate, a height     *)
(* times a cosine, is counted in thousandths.                              *)
(*                                                                         *)
(* Strings.  A string is a sequence of tokens: a printed number, "," or    *)
(* " ".  trailPoints is such a sequence and split/join work on it.         *)
(***************************************************************************)
EXTENDS Integers, Sequences, FiniteSets, TLC

\* ------------------------------------------------------------------ bounds

\* A run is followed for at most MaxTicks ticks.
MaxTicks == 110

\* The trail's capacity: 2000 in the source (index.tsx:248), scaled down so
\* that the trail fills and evicts within a run of the model.
TrailCap == 3

\* ------------------------------------------------------- program constants

\* index.tsx:213  this.frameCount > 100
WarmUp == 100

\* index.tsx:217  const threshold = 5
Threshold == 5

\* ----------------------------------------------------------------- numbers

N(v) == [k |-> "num", v |-> v]

NaN == [k |-> "NaN", v |-> 0]

Undefined == [k |-> "undefined", v |-> 0]

IsNum(a) == a.k = "num"

\* a + b and a * b: anything that is not a number makes the result NaN.
Add(a, b) == IF IsNum(a) /\ IsNum(b) THEN N(a.v + b.v) ELSE NaN

Mul(a, b) == IF IsNum(a) /\ IsNum(b) THEN N(a.v * b.v) ELSE NaN

Sub(a, b) == IF IsNum(a) /\ IsNum(b) THEN N(a.v - b.v) ELSE NaN

\* Math.max(a, b)
MathMax(a, b) ==
    IF IsNum(a) /\ IsNum(b) THEN N(IF a.v >= b.v THEN a.v ELSE b.v) ELSE NaN

\* The angles of a full turn, and the coordinates of a unit of length.
Turn == 100

Milli == 1000

\* 500 * cos(2 * PI * k / Turn), rounded, for k = 0 .. Turn - 1.
CosTable ==
    << 500, 499, 496, 491, 484, 476, 465, 452, 438, 422,
       405, 385, 364, 342, 319, 294, 268, 241, 213, 184,
       155, 124, 94, 63, 31, 0, -31, -63, -94, -124,
       -155, -184, -213, -241, -268, -294, -319, -342, -364, -385,
       -405, -422, -438, -452, -465, -476, -484, -491, -496, -499,
       -500, -499, -496, -491, -484, -476, -465, -452, -438, -422,
       -405, -385, -364, -342, -319, -294, -268, -241, -213, -184,
       -155, -124, -94, -63, -31, 0, 31, 63, 94, 124,
       155, 184, 213, 241, 268, 294, 319, 342, 364, 385,
       405, 422, 438, 452, 465, 476, 484, 491, 496, 499 >>

\* Math.cos and Math.sin of an angle; sin(a) = cos(a - a quarter turn).
MathCos(a) ==
    IF IsNum(a) THEN N(CosTable[(a.v % Turn) + 1]) ELSE NaN

MathSin(a) ==
    IF IsNum(a) THEN N(CosTable[((a.v - 25) % Turn) + 1]) ELSE NaN

\* String(a), `${a}`
String(a) == IF IsNum(a) THEN ToString(a.v) ELSE a.k

\* Mutant of DistanceBelow: the threshold itself counts as near, <=.
DistanceAtMost(dx, dy, threshold) ==
    /\ IsNum(dx)
    /\ IsNum(dy)
    /\ -(threshold * Milli) <= dx.v /\ dx.v <= threshold * Milli
    /\ -(threshold * Milli) <= dy.v /\ dy.v <= threshold * Milli
    /\ dx.v * dx.v + dy.v * dy.v <= (threshold * Milli) * (threshold * Milli)

\* Math.sqrt(dx * dx + dy * dy) < threshold, decided on the squares (a leg as
\* long as the threshold decides it before squaring); a NaN distance compares
\* false.
DistanceBelow(dx, dy, threshold) ==
    /\ IsNum(dx)
    /\ IsNum(dy)
    /\ -(threshold * Milli) < dx.v /\ dx.v < threshold * Milli
    /\ -(threshold * Milli) < dy.v /\ dy.v < threshold * Milli
    /\ dx.v * dx.v + dy.v * dy.v < (threshold * Milli) * (threshold * Milli)

\* ----------------------------------------------------------------- strings

\* str.split(' ') on a token sequence: the pieces between separators.
RECURSIVE SplitFrom(_, _, _, _)
SplitFrom(str, sep, i, piece) ==
    IF i > Len(str) THEN <<piece>>
    ELSE IF str[i] = sep
         THEN <<piece>> \o SplitFrom(str, sep, i + 1, <<>>)
         ELSE SplitFrom(str, sep, i + 1, Append(piece, str[i]))

Split(str, sep) == SplitFrom(str, sep, 1, <<>>)

\* parts.join(' ')
RECURSIVE Join(_, _)
Join(parts, sep) ==
    IF Len(parts) = 0 THEN <<>>
    ELSE IF Len(parts) = 1 THEN parts[1]
    ELSE parts[1] \o <<sep>> \o Join(Tail(parts), sep)

\* `${lastX},${lastY}`
PointString(x, y) == <<String(x), ",", String(y)>>


\* ------------------------------------------------------------------ Config

\* The query strings of the model (window.location.search as Config parses
\* it: a key is present or not, and a present key carries the value that
\* parseFloat, split(',') or JSON.parse yields).  Every query carries speed,
\* speedGap and angleGap, whose defaults (0.01, 0.01 and PI/4 radians) are no
\* whole number of hundredths of a turn; none carries 'random'.  The
\* per-segment arrays are absent, as long as the segment count, or shorter.
Queries ==
    { [speed |-> N(25), speedGap |-> N(25), angleGap |-> N(25)] @@ given :
        given \in
          { [pendulums |-> N(0)],
            [pendulums |-> N(1)],
            [pendulums |-> N(1), heights |-> <<N(6)>>],
            [pendulums |-> N(1), heights |-> <<N(6)>>, speeds |-> <<N(0)>>],
            [pendulums |-> N(1), heights |-> <<N(8)>>, angles |-> <<N(0)>>,
             widths |-> <<N(3)>>, colors |-> <<<<"red">>>>],
            \* length 10, a hundredth of a turn per tick, from angle 0
            [pendulums |-> N(1), heights |-> <<N(20)>>, speeds |-> <<N(1)>>,
             angles |-> <<N(0)>>],
            \* length 2.5, half a turn per tick: the tip is 5 or 0 away
            [pendulums |-> N(1), heights |-> <<N(5)>>, speeds |-> <<N(50)>>,
             angles |-> <<N(0)>>],
            \* a negative length and a zero width, given explicitly
            [pendulums |-> N(1), heights |-> <<N(-6)>>, widths |-> <<N(0)>>],
            [pendulums |-> N(2), height |-> N(24)],
            [pendulums |-> N(2), heights |-> <<N(6), N(8)>>],
            [pendulums |-> N(2), heights |-> <<N(2), N(6)>>,
             speeds |-> <<N(25), N(75)>>, angles |-> <<N(0), N(25)>>],
            [pendulums |-> N(2), heights |-> <<N(6)>>],
            [pendulums |-> N(2), heights |-> <<N(6), N(8)>>,
             speeds |-> <<N(25)>>],
            [pendulums |-> N(2), heights |-> <<N(6), N(8)>>,
             angles |-> <<N(0)>>],
            [pendulums |-> N(2), heights |-> <<N(6), N(8)>>,
             widths |-> <<N(3)>>],
            [pendulums |-> N(2), heights |-> <<N(6), N(8)>>,
             colors |-> <<<<"red">>>>] } }

\* Config.get: the parsed value of a present key, else the default.
ConfigGet(q, key, defaultValue) ==
    IF key \in DOMAIN q THEN q[key] ELSE defaultValue

\* array[i] with JavaScript's 0-based index: undefined past the end.
At(array, i) == IF i + 1 \in DOMAIN array THEN array[i + 1] ELSE Undefined

\* colors[i]: a string, or undefined past the end.
ColorAt(array, i) ==
    IF i + 1 \in DOMAIN array
    THEN [k |-> "str", s |-> array[i + 1]]
    ELSE [k |-> "undefined", s |-> <<>>]

\* `hsl(${(colorBase + i * colorGap) % 360}, ${saturation}%, ${lightness}%)`
Hsl(hue, saturation, lightness) ==
    [k |-> "str",
     s |-> <<"hsl(", String(N(hue.v % 360)), ", ", String(saturation), "%, ",
             String(lightness), "%)">>]

\* String(color) as an attribute value.
ColorString(color) == IF color.k = "str" THEN color.s ELSE <<color.k>>

\* ---------------------------------------------------------- the DOM it owns

\* The window sizes of the model, halved: window.innerWidth / 2 and
\* window.innerHeight / 2, at (0, 0) and (7, 0).
Centers == {[x |-> N(0), y |-> N(0)], [x |-> N(7 * Milli), y |-> N(0)]}

\* animationFrameId: number | null = null.  A handle is never 0.
NoFrame == 0

\* ---------------------------------------------------------------- init()

\* Mutant of CancelPending: init() forgets to cancel.
KeepPending(queue, id) == queue

\* if (this.animationFrameId) cancelAnimationFrame(this.animationFrameId):
\* the callback with that handle leaves the browser's queue.
CancelPending(queue, id) ==
    IF id # NoFrame THEN {cb \in queue : cb.id # id} ELSE queue

\* Callbacks still queued when a run is superseded belong to the old run.
Supersede(queue) == {[cb EXCEPT !.stale = TRUE] : cb \in queue}

\* Mutants of ResetFields: isNearStart, trailPoints or frameCount survives
\* the reset.
ResetFieldsKeepNear(o) ==
    [o EXCEPT !.pendulums = <<>>, !.trailPoints = <<>>, !.frameCount = 0]

ResetFieldsKeepTrail(o) ==
    [o EXCEPT !.pendulums = <<>>, !.frameCount = 0, !.isNearStart = FALSE]

ResetFieldsKeepCount(o) ==
    [o EXCEPT !.pendulums = <<>>, !.trailPoints = <<>>, !.isNearStart = FALSE]

\* this.pendulums = []; this.trailPoints = ''; this.frameCount = 0;
\* this.isNearStart = false;  (svg.innerHTML = '' drops every old element)
ResetFields(o) ==
    [o EXCEPT !.pendulums = <<>>, !.trailPoints = <<>>, !.frameCount = 0,
              !.isNearStart = FALSE]

\* The Pendulum pushed by iteration i of init's loop.
NewPendulum(q, i) ==
    LET speeds == ConfigGet(q, "speeds", Undefined)
        speedBase == q.speed
        speedGap == q.speedGap
        heights == ConfigGet(q, "heights", Undefined)
        heightBase == ConfigGet(q, "height", N(200))
        heightGap == ConfigGet(q, "heightGap", N(-20))
        widths == ConfigGet(q, "widths", Undefined)
        widthBase == ConfigGet(q, "width", N(10))
        widthGap == ConfigGet(q, "widthGap", N(-1))
        angles == ConfigGet(q, "angles", Undefined)
        angleBase == ConfigGet(q, "angle", N(25))
        angleGap == q.angleGap
        colors == ConfigGet(q, "colors", Undefined)
        colorBase == ConfigGet(q, "color", N(180))
        colorGap == ConfigGet(q, "colorGap", N(30))
        saturation == ConfigGet(q, "saturation", N(85))
        lightness == ConfigGet(q, "lightness", N(60))
        speed == IF "speeds" \in DOMAIN q THEN At(speeds, i)
                 ELSE Add(speedBase, Mul(N(i), speedGap))
        height == IF "heights" \in DOMAIN q THEN At(heights, i)
                  ELSE MathMax(N(20), Add(heightBase, Mul(N(i), heightGap)))
        width == IF "widths" \in DOMAIN q THEN At(widths, i)
                 ELSE MathMax(N(2), Add(widthBase, Mul(N(i), widthGap)))
        angle == IF "angles" \in DOMAIN q THEN At(angles, i)
                 ELSE Add(angleBase, Mul(N(i), angleGap))
        color == IF "colors" \in DOMAIN q THEN ColorAt(colors, i)
                 ELSE Hsl(Add(colorBase, Mul(N(i), colorGap)), saturation,
                          lightness)
    IN  [speed |-> speed, height |-> height, width |-> width, angle |-> angle,
         color |-> color,
         arm |-> [stroke |-> ColorString(color), strokeWidth |-> String(width),
                  x1 |-> "", y1 |-> "", x2 |-> "", y2 |-> ""]]

\* for (let i = 0; i < numPendulums; i++) { ... this.pendulums.push(p); }
BuildPendulums(q) ==
    LET numPendulums == ConfigGet(q, "pendulums", N(3))
    IN  [i \in 1..numPendulums.v |-> NewPendulum(q, i - 1)]

\* calculateInitialEndPoint(): the pivot plus every arm at its current angle.
RECURSIVE EndPointFrom(_, _, _, _)
EndPointFrom(pends, i, x, y) ==
    IF i > Len(pends) THEN [x |-> x, y |-> y]
    ELSE EndPointFrom(pends, i + 1,
                      Add(x, Mul(pends[i].height, MathCos(pends[i].angle))),
                      Add(y, Mul(pends[i].height, MathSin(pends[i].angle))))

\* Mutant of calculateInitialEndPoint: the sum starts at the origin.
EndPointFromOrigin(o) == EndPointFrom(o.pendulums, 1, N(0), N(0))

\* Mutant of calculateInitialEndPoint: the angles have taken a step already.
EndPointAfterStep(o) ==
    EndPointFrom([i \in DOMAIN o.pendulums |->
                    [o.pendulums[i] EXCEPT
                       !.angle = Add(o.pendulums[i].angle, o.pendulums[i].speed)]],
                 1, o.center.x, o.center.y)

calculateInitialEndPoint(o) == EndPointFrom(o.pendulums, 1, o.center.x, o.center.y)

\* The new pivot circle: r 4, fill #999, at the center.
NewPivot(c) == [cx |-> String(c.x), cy |-> String(c.y), r |-> "4", fill |-> "#999"]

\* init() up to its last statement: the object as this.animate() finds it.
Rebuild(o, q) ==
    LET cleared == ResetFields(o)
        built == [cleared EXCEPT
                    !.config = [lineWidth |-> ConfigGet(q, "lineWidth", N(2)),
                                lineColor |-> ConfigGet(q, "lineColor", <<"#ffffff">>),
                                lineFill |-> ConfigGet(q, "lineFill", <<"rgba(0,0,0,0.2)">>)],
                    !.trailFillGroup = <<>>,
                    !.pivot = NewPivot(o.center),
                    !.darkenCalls = 0,
                    !.resetCalls = 0,
                    !.pendulums = BuildPendulums(q)]
    IN  [built EXCEPT
           !.startPoint = calculateInitialEndPoint(built),
           !.trailPath = [points |-> <<>>,
                          stroke |-> built.config.lineColor,
                          strokeWidth |-> String(built.config.lineWidth)]]

\* -------------------------------------------------------------- animate()

\* The loop over this.pendulums: each angle advances by its speed, each arm
\* is drawn from the previous joint to its own, and the last joint is the tip.
RECURSIVE SwingFrom(_, _, _, _)
SwingFrom(pends, i, lastX, lastY) ==
    IF i > Len(pends) THEN [pendulums |-> pends, lastX |-> lastX, lastY |-> lastY]
    ELSE LET angle == Add(pends[i].angle, pends[i].speed)
             x == Add(lastX, Mul(pends[i].height, MathCos(angle)))
             y == Add(lastY, Mul(pends[i].height, MathSin(angle)))
             arm == [pends[i].arm EXCEPT !.x1 = String(lastX), !.y1 = String(lastY),
                                         !.x2 = String(x), !.y2 = String(y)]
         IN  SwingFrom([pends EXCEPT ![i].angle = angle, ![i].arm = arm],
                       i + 1, x, y)

\* Mutant of Swing: the loop runs twice in one tick.
SwingTwice(o) ==
    SwingFrom(SwingFrom(o.pendulums, 1, o.center.x, o.center.y).pendulums, 1,
              o.center.x, o.center.y)

Swing(o) == SwingFrom(o.pendulums, 1, o.center.x, o.center.y)

\* darkenPivot()
darkenPivot(o) ==
    [o EXCEPT !.pivot.fill = "#000000", !.pivot.r = "6",
              !.darkenCalls = o.darkenCalls + 1]

\* Mutant of resetPivot: the fill goes back, the radius stays.
resetPivotFillOnly(o) ==
    [o EXCEPT !.pivot.fill = "#999", !.resetCalls = o.resetCalls + 1]

\* resetPivot()
resetPivot(o) ==
    [o EXCEPT !.pivot.fill = "#999", !.pivot.r = "4",
              !.resetCalls = o.resetCalls + 1]

\* Mutant of DetectRound: level triggered, the side effect on every tick.
DetectRoundEveryTick(o, lastX, lastY) ==
    IF o.frameCount > WarmUp
    THEN LET dx == Sub(lastX, o.startPoint.x)
             dy == Sub(lastY, o.startPoint.y)
         IN  IF DistanceBelow(dx, dy, Threshold)
             THEN darkenPivot([o EXCEPT !.isNearStart = TRUE])
             ELSE resetPivot([o EXCEPT !.isNearStart = FALSE])
    ELSE o

\* Mutant of DetectRound: detection starts a tick late.
DetectRoundLate(o, lastX, lastY) ==
    IF o.frameCount > WarmUp + 1
    THEN LET dx == Sub(lastX, o.startPoint.x)
             dy == Sub(lastY, o.startPoint.y)
         IN  IF DistanceBelow(dx, dy, Threshold)
             THEN IF ~o.isNearStart
                  THEN darkenPivot([o EXCEPT !.isNearStart = TRUE])
                  ELSE o
             ELSE IF o.isNearStart
                  THEN resetPivot([o EXCEPT !.isNearStart = FALSE])
                  ELSE o
    ELSE o

\* if (this.startPoint && this.frameCount > 100) { ... }: the round detector,
\* which acts only on a change of isNearStart.
DetectRound(o, lastX, lastY) ==
    IF o.frameCount > WarmUp
    THEN LET dx == Sub(lastX, o.startPoint.x)
             dy == Sub(lastY, o.startPoint.y)
         IN  IF DistanceBelow(dx, dy, Threshold)
             THEN IF ~o.isNearStart
                  THEN darkenPivot([o EXCEPT !.isNearStart = TRUE])
                  ELSE o
             ELSE IF o.isNearStart
                  THEN resetPivot([o EXCEPT !.isNearStart = FALSE])
                  ELSE o
    ELSE o

\* this.trailPoints = this.trailPoints ? `${this.trailPoints} ${newPoint}`
\*                                     : newPoint
AppendPoint(trailPoints, newPoint) ==
    IF trailPoints # <<>> THEN trailPoints \o <<" ">> \o newPoint ELSE newPoint

\* The fill circle of this tick, appended to trailFillGroup.  created tells
\* the circles of a run apart: the tick that made it.
NewFillCircle(o, lastX, lastY) ==
    [cx |-> String(lastX), cy |-> String(lastY), r |-> "20",
     fill |-> o.config.lineFill, created |-> o.frameCount]

\* Mutant of DropOldestPoint: the newest point is dropped, slice(0, -1).
DropNewestPoint(points) == Join(SubSeq(points, 1, Len(points) - 1), " ")

\* points.slice(1).join(' ')
DropOldestPoint(points) == Join(SubSeq(points, 2, Len(points)), " ")

\* Mutant of RemoveFirstChild: the circle stays in the group.
KeepFirstChild(group) == group

\* this.trailFillGroup.removeChild(this.trailFillGroup.firstChild)
RemoveFirstChild(group) == IF group # <<>> THEN Tail(group) ELSE group

\* Mutant of Evict: the buffer is trimmed one point late.
EvictLate(o) ==
    LET points == Split(o.trailPoints, " ")
    IN  IF Len(points) > TrailCap + 1
        THEN [o EXCEPT !.trailPoints = DropOldestPoint(points),
                       !.trailFillGroup = RemoveFirstChild(o.trailFillGroup)]
        ELSE o

\* const points = this.trailPoints.split(' ');
\* if (points.length > 2000) { ... }
Evict(o) ==
    LET points == Split(o.trailPoints, " ")
    IN  IF Len(points) > TrailCap
        THEN [o EXCEPT !.trailPoints = DropOldestPoint(points),
                       !.trailFillGroup = RemoveFirstChild(o.trailFillGroup)]
        ELSE o

\* The handle requestAnimationFrame returns: one that no queued callback and
\* no handle the object still holds is using.
FreshHandle(queue, held) ==
    CHOOSE id \in 1..(Cardinality(queue) + 2) :
        /\ id # held
        /\ \A cb \in queue : cb.id # id
        /\ \A other \in 1..(id - 1) :
              other = held \/ \E cb \in queue : cb.id = other

\* Mutant of RequestFrame: no callback is queued.
ForgetFrame(queue, id) == queue

\* requestAnimationFrame(() => this.animate()): one more callback queued.
RequestFrame(queue, id) == queue \cup {[id |-> id, stale |-> FALSE]}

\* animate(): one tick.  Yields the object and the browser's queue after it.
Animate(o, queue) ==
    LET counted == [o EXCEPT !.frameCount = o.frameCount + 1]
        swung == Swing(counted)
        moved == [counted EXCEPT !.pendulums = swung.pendulums]
        judged == DetectRound(moved, swung.lastX, swung.lastY)
        trail == AppendPoint(judged.trailPoints,
                             PointString(swung.lastX, swung.lastY))
        drawn == [judged EXCEPT
                    !.trailPoints = trail,
                    !.trailPath.points = trail,
                    !.trailFillGroup =
                        Append(judged.trailFillGroup,
                               NewFillCircle(judged, swung.lastX, swung.lastY))]
        kept == Evict(drawn)
        id == FreshHandle(queue, kept.animationFrameId)
    IN  [o |-> [kept EXCEPT !.animationFrameId = id],
         queue |-> RequestFrame(queue, id)]

\* init(): cancel the pending tick, rebuild, and call this.animate().
InitRun(o, queue, q) ==
    Animate(Rebuild(o, q), Supersede(CancelPending(queue, o.animationFrameId)))

\* ------------------------------------------------------------------- state

VARIABLES
    center,           \* this.center
    config,           \* this.config
    pendulums,        \* this.pendulums
    animationFrameId, \* this.animationFrameId
    trailPoints,      \* this.trailPoints
    trailPath,        \* this.trailPath: the polyline's attributes
    trailFillGroup,   \* this.trailFillGroup: its children, first to last
    startPoint,       \* this.startPoint
    pivot,            \* this.pivot: the circle's attributes
    frameCount,       \* this.frameCount
    isNearStart,      \* this.isNearStart
    search,           \* window.location.search as the latest init() read it
    rafQueue,         \* the browser's pending animation frame callbacks
    darkenCalls,      \* calls of darkenPivot() on the current pivot
    resetCalls,       \* calls of resetPivot() on the current pivot
    lastEvent,        \* the event handled last
    prevRunNear       \* after an init(): isNearStart of the run it superseded

vars == <<center, config, pendulums, animationFrameId, trailPoints, trailPath,
          trailFillGroup, startPoint, pivot, frameCount, isNearStart, search,
          rafQueue, darkenCalls, resetCalls, lastEvent, prevRunNear>>

\* The object as a record, and the state it becomes.
Self ==
    [center |-> center, config |-> config, pendulums |-> pendulums,
     animationFrameId |-> animationFrameId, trailPoints |-> trailPoints,
     trailPath |-> trailPath, trailFillGroup |-> trailFillGroup,
     startPoint |-> startPoint, pivot |-> pivot, frameCount |-> frameCount,
     isNearStart |-> isNearStart, darkenCalls |-> darkenCalls,
     resetCalls |-> resetCalls]

Becomes(o) ==
    /\ center' = o.center
    /\ config' = o.config
    /\ pendulums' = o.pendulums
    /\ animationFrameId' = o.animationFrameId
    /\ trailPoints' = o.trailPoints
    /\ trailPath' = o.trailPath
    /\ trailFillGroup' = o.trailFillGroup
    /\ startPoint' = o.startPoint
    /\ pivot' = o.pivot
    /\ frameCount' = o.frameCount
    /\ isNearStart' = o.isNearStart
    /\ darkenCalls' = o.darkenCalls
    /\ resetCalls' = o.resetCalls

\* The field initializers of the class, with this.center as the constructor
\* sets it.
Fresh(c) ==
    [center |-> c, config |-> <<>>, pendulums |-> <<>>,
     animationFrameId |-> NoFrame, trailPoints |-> <<>>, trailPath |-> <<>>,
     trailFillGroup |-> <<>>, startPoint |-> <<>>, pivot |-> <<>>,
     frameCount |-> 0, isNearStart |-> FALSE, darkenCalls |-> 0,
     resetCalls |-> 0]

\* new PendulumSimulation(): the constructor ends in this.init().
Init ==
    \E c \in Centers, q \in Queries :
        \E r \in {InitRun(Fresh(c), {}, q)} :
            /\ center = r.o.center
            /\ config = r.o.config
            /\ pendulums = r.o.pendulums
            /\ animationFrameId = r.o.animationFrameId
            /\ trailPoints = r.o.trailPoints
            /\ trailPath = r.o.trailPath
            /\ trailFillGroup = r.o.trailFillGroup
            /\ startPoint = r.o.startPoint
            /\ pivot = r.o.pivot
            /\ frameCount = r.o.frameCount
            /\ isNearStart = r.o.isNearStart
            /\ darkenCalls = r.o.darkenCalls
            /\ resetCalls = r.o.resetCalls
            /\ search = q
            /\ rafQueue = r.queue
            /\ lastEvent = "construct"
            /\ prevRunNear = FALSE

\* A click on the apply button: init().
Click ==
    \E q \in Queries :
        \E r \in {InitRun(Self, rafQueue, q)} :
            /\ Becomes(r.o)
            /\ rafQueue' = r.queue
            /\ search' = q
            /\ lastEvent' = "click"
            /\ prevRunNear' = isNearStart

\* Mutant of Resize: this.center is set anew and init() is not called.
ResizeWithoutInit ==
    \E c \in Centers :
        /\ center' = c
        /\ lastEvent' = "resize"
        /\ UNCHANGED <<config, pendulums, animationFrameId, trailPoints,
                       trailPath, trailFillGroup, startPoint, pivot,
                       frameCount, isNearStart, search, rafQueue, darkenCalls,
                       resetCalls, prevRunNear>>

\* A resize of the window: this.center is set anew, then init().
Resize ==
    \E c \in Centers, q \in Queries :
        \E r \in {InitRun([Self EXCEPT !.center = c], rafQueue, q)} :
            /\ Becomes(r.o)
            /\ rafQueue' = r.queue
            /\ search' = q
            /\ lastEvent' = "resize"
            /\ prevRunNear' = isNearStart

\* The browser runs a queued animation frame callback: animate().
Frame ==
    \E cb \in rafQueue :
        \E r \in {Animate(Self, rafQueue \ {cb})} :
            /\ frameCount < MaxTicks
            /\ Becomes(r.o)
            /\ rafQueue' = r.queue
            /\ lastEvent' = "frame"
            /\ prevRunNear' = FALSE
            /\ UNCHANGED search

Next == Click \/ Resize \/ Frame

Spec == Init /\ [][Next]_vars

\* A Frame step as the browser's scheduler sees it: a callback is queued, and
\* animate() runs and counts itself.  It is enabled exactly when Frame is, and
\* a step of Next is one exactly when it is a Frame step.
FrameCounted ==
    /\ rafQueue # {}
    /\ frameCount < MaxTicks
    /\ frameCount' = frameCount + 1
    /\ lastEvent' = "frame"

\* The browser runs a callback that stays queued: before the next repaint.
FairSpec == Spec /\ WF_<<frameCount, lastEvent>>(FrameCounted)

\* ------------------------------------------- a run, told from its inputs

Min(a, b) == IF a <= b THEN a ELSE b

Max(a, b) == IF a >= b THEN a ELSE b

\* The points of the trail buffer, oldest first.
TrailBuffer == Split(trailPoints, " ")

\* The tip after tick t >= 1 of a run that init() built from query q around
\* pivot c: every segment has turned t times its speed from its first angle.
RECURSIVE TipFrom(_, _, _, _, _)
TipFrom(pends, t, i, x, y) ==
    IF i > Len(pends) THEN [x |-> x, y |-> y]
    ELSE LET angle == Add(pends[i].angle, Mul(N(t), pends[i].speed))
         IN  TipFrom(pends, t, i + 1,
                     Add(x, Mul(pends[i].height, MathCos(angle))),
                     Add(y, Mul(pends[i].height, MathSin(angle))))

TipAt(q, c, t) == TipFrom(BuildPendulums(q), t, 1, c.x, c.y)

\* Where the tip of that run starts: every segment at its first angle.
StartOf(q, c) == EndPointFrom(BuildPendulums(q), 1, c.x, c.y)

\* Whether tick t of that run ends with the tip below the threshold.
NearAt(q, c, t) ==
    LET tip == TipAt(q, c, t)
        start == StartOf(q, c)
    IN  DistanceBelow(Sub(tip.x, start.x), Sub(tip.y, start.y), Threshold)

\* ------------------------------------------------------------------ claims

\* C1: after t completed ticks of a run the trail buffer holds exactly
\* min(t, N) points, N the trail's capacity; it never holds more than N.
C1_TrailBound == Len(TrailBuffer) = Min(frameCount, TrailCap)

\* C1's case: a tick of a run that has already outgrown the capacity.
C1_Witness ==
    /\ lastEvent = "frame"
    /\ frameCount > TrailCap + 1
    /\ Len(TrailBuffer) = TrailCap

\* C2: after every tick and every reset there are as many fill circles in
\* trailFillGroup as points in the trail buffer, so a tick that drops a point
\* drops one circle too, and none drops the one without the other.
C2_PointsPairedWithHandles == Len(trailFillGroup) = Len(TrailBuffer)

\* C2's case: a tick that evicted, in a run whose circles are at capacity.
C2_Witness ==
    /\ lastEvent = "frame"
    /\ frameCount > TrailCap
    /\ Len(trailFillGroup) = TrailCap
    /\ trailFillGroup[1].created = frameCount - TrailCap + 1

\* C3: after t ticks the trail buffer is the tips of ticks max(1, t-N+1)..t in
\* order, and the i-th fill circle is the one made at the i-th point's tick,
\* at that point: every eviction took the oldest point and the oldest circle.
C3_SlidingWindow ==
    LET first == Max(1, frameCount - TrailCap + 1)
    IN  /\ DOMAIN TrailBuffer = 1..(frameCount - first + 1)
        /\ DOMAIN trailFillGroup = DOMAIN TrailBuffer
        /\ \A i \in DOMAIN TrailBuffer :
              LET tip == TipAt(search, center, first + i - 1)
              IN  /\ TrailBuffer[i] = PointString(tip.x, tip.y)
                  /\ trailFillGroup[i].created = first + i - 1
                  /\ trailFillGroup[i].cx = String(tip.x)
                  /\ trailFillGroup[i].cy = String(tip.y)

\* C3's case: the window has slid, over a tip that moves.
C3_Witness ==
    /\ lastEvent = "frame"
    /\ frameCount > TrailCap + 1
    /\ TrailBuffer[1] # TrailBuffer[Len(TrailBuffer)]
    /\ TrailBuffer[1] # TrailBuffer[2]

\* The ticks after warm-up, up to tick n, on which that run enters the
\* neighbourhood of its start, and those on which it leaves it.
Entries(q, c, n) ==
    {t \in (WarmUp + 1)..n :
        NearAt(q, c, t) /\ (t = WarmUp + 1 \/ ~NearAt(q, c, t - 1))}

Exits(q, c, n) ==
    {t \in (WarmUp + 2)..n : ~NearAt(q, c, t) /\ NearAt(q, c, t - 1)}

\* C4: the round detector is edge triggered.  darkenPivot has been called once
\* for every tick on which the tip came below the threshold (the first tick of
\* a stay, however long the stay) and resetPivot once for every tick on which
\* it left; a tick that does not change the state calls neither.
C4_EdgeTriggered ==
    /\ darkenCalls = Cardinality(Entries(search, center, frameCount))
    /\ resetCalls = Cardinality(Exits(search, center, frameCount))

\* C4's case: the tick that ends a stay of two ticks below the threshold.
C4_Witness ==
    /\ lastEvent = "frame"
    /\ frameCount >= WarmUp + 4
    /\ ~NearAt(search, center, frameCount)
    /\ NearAt(search, center, frameCount - 1)
    /\ NearAt(search, center, frameCount - 2)
    /\ ~NearAt(search, center, frameCount - 3)
    /\ darkenCalls >= 1
    /\ resetCalls >= 1

\* C5: once init() has run, no callback of a superseded run is left to
\* execute: every queued callback belongs to the latest run, and is the one
\* whose handle the object holds.
C5_NoStaleTick ==
    \A cb \in rafQueue : ~cb.stale /\ cb.id = animationFrameId

\* C5's case: a reset in the middle of a run that was past its warm-up.
C5_Witness ==
    /\ lastEvent \in {"click", "resize"}
    /\ prevRunNear
    /\ rafQueue = {[id |-> animationFrameId, stale |-> FALSE]}

\* C6: while frameCount has not exceeded the warm-up, the round detector has
\* made no transition and called neither side effect: isNearStart is false.
C6_WarmUpGuard ==
    frameCount <= WarmUp =>
        ~isNearStart /\ darkenCalls = 0 /\ resetCalls = 0

\* C6's case: the first tick of a run that superseded a run in state NEAR,
\* with the tip below the threshold on that tick.
C6_Witness ==
    /\ lastEvent \in {"click", "resize"}
    /\ prevRunNear
    /\ frameCount = 1
    /\ NearAt(search, center, 1)
    /\ ~isNearStart

\* C7: with no segment the tip is the pivot on every tick: every trail point
\* and every fill circle is at the pivot, and the detector is NEAR from the
\* first tick after warm-up on, having called darkenPivot once and resetPivot
\* never.
C7_ZeroSegments ==
    Len(pendulums) = 0 =>
        /\ \A i \in DOMAIN TrailBuffer :
              TrailBuffer[i] = PointString(center.x, center.y)
        /\ \A i \in DOMAIN trailFillGroup :
              /\ trailFillGroup[i].cx = String(center.x)
              /\ trailFillGroup[i].cy = String(center.y)
        /\ isNearStart = (frameCount > WarmUp)
        /\ darkenCalls = (IF frameCount > WarmUp THEN 1 ELSE 0)
        /\ resetCalls = 0

\* C7's case: a run without segments, two ticks past its warm-up, around a
\* pivot away from the origin.
C7_Witness ==
    /\ Len(pendulums) = 0
    /\ lastEvent = "frame"
    /\ frameCount >= WarmUp + 2
    /\ center.x # N(0)
    /\ isNearStart

\* Whether query q gives a per-segment array shorter than its segment count.
ShortArray(q) ==
    \E key \in {"speeds", "heights", "widths", "angles", "colors"} :
        /\ key \in DOMAIN q
        /\ Len(q[key]) < ConfigGet(q, "pendulums", N(3)).v

\* C8: a reset given a per-segment array shorter than the segment count does
\* not start the run: no tick has executed, none is pending, and neither
\* undefined nor NaN has reached a segment or the trail.
C8_ShortArrayStopsRun ==
    ShortArray(search) =>
        /\ frameCount = 0
        /\ rafQueue = {}
        /\ trailPoints = <<>>
        /\ \A i \in DOMAIN pendulums :
              /\ IsNum(pendulums[i].speed)
              /\ IsNum(pendulums[i].height)
              /\ IsNum(pendulums[i].width)
              /\ IsNum(pendulums[i].angle)
              /\ pendulums[i].color.k = "str"

\* The chain init() builds from the latest query, before any tick.
Built == BuildPendulums(search)

\* C9 as claimed: when a reset returns the run is still in its pre-tick state,
\* with an empty trail, tickCount 0 and every angle at its configured value.
C9_ResetLeavesPreTickState ==
    lastEvent \in {"click", "resize"} =>
        /\ frameCount = 0
        /\ trailPoints = <<>>
        /\ trailFillGroup = <<>>
        /\ \A i \in DOMAIN pendulums : pendulums[i].angle = Built[i].angle

\* C9 as amended: a reset cancels the pending tick, clears the trail and its
\* circles, sets AWAY, rebuilds the chain, captures startPoint from the
\* pre-tick angles, and runs the first tick itself: when it returns tickCount
\* is 1, the trail holds the first tip alone, every angle has advanced once,
\* and the one pending callback is the second tick's.
C9_ResetRunsFirstTick ==
    lastEvent # "frame" =>
        /\ frameCount = 1
        /\ ~isNearStart
        /\ pivot = NewPivot(center)
        /\ TrailBuffer =
              <<PointString(TipAt(search, center, 1).x, TipAt(search, center, 1).y)>>
        /\ Len(trailFillGroup) = 1
        /\ trailFillGroup[1].created = 1
        /\ DOMAIN pendulums = DOMAIN Built
        /\ \A i \in DOMAIN pendulums :
              /\ pendulums[i].angle = Add(Built[i].angle, Built[i].speed)
              /\ pendulums[i].speed = Built[i].speed
              /\ pendulums[i].height = Built[i].height
              /\ pendulums[i].width = Built[i].width
              /\ pendulums[i].color = Built[i].color
        /\ startPoint = StartOf(search, center)
        /\ rafQueue = {[id |-> animationFrameId, stale |-> FALSE]}

\* C9's case: a click in the middle of a run past its warm-up, for a chain of
\* two segments.
C9_Witness ==
    /\ lastEvent = "click"
    /\ prevRunNear
    /\ Len(pendulums) = 2
    /\ frameCount = 1

\* Joint k of that run after tick t: the end of its first k segments.
JointAt(q, c, t, k) == TipFrom(SubSeq(BuildPendulums(q), 1, k), t, 1, c.x, c.y)

\* C10: a run is determined by its resolved configuration.  After tick k the
\* joint positions, the segment angles, the trail, tickCount's relation to the
\* trail and isNearStart are those that the configuration, the pivot and k
\* give, whatever ran on the object before this run.
C10_Deterministic ==
    /\ DOMAIN pendulums = DOMAIN Built
    /\ \A i \in DOMAIN pendulums :
          LET from == JointAt(search, center, frameCount, i - 1)
              to == JointAt(search, center, frameCount, i)
          IN  /\ pendulums[i].angle =
                    Add(Built[i].angle, Mul(N(frameCount), Built[i].speed))
              /\ pendulums[i].arm.x1 = String(from.x)
              /\ pendulums[i].arm.y1 = String(from.y)
              /\ pendulums[i].arm.x2 = String(to.x)
              /\ pendulums[i].arm.y2 = String(to.y)
    /\ TrailBuffer =
          [i \in 1..Min(frameCount, TrailCap) |->
              LET tip == TipAt(search, center,
                               Max(1, frameCount - TrailCap + 1) + i - 1)
              IN  PointString(tip.x, tip.y)]
    /\ isNearStart =
          (frameCount > WarmUp /\ NearAt(search, center, frameCount))

\* C10's case: the first tick of a run on an object whose previous run, of
\* whatever configuration, had reached state NEAR.
C10_Witness ==
    /\ lastEvent = "resize"
    /\ prevRunNear
    /\ Len(pendulums) = 2
    /\ pendulums[2].arm.x2 # pendulums[1].arm.x1

\* The concrete scenario: one segment of length 10 that starts at angle 0 and
\* turns a hundredth of a turn per tick.
InScenario ==
    /\ DOMAIN Built = {1}
    /\ Built[1].height = N(20)
    /\ Built[1].angle = N(0)
    /\ Built[1].speed = N(1)

\* C11: in the concrete scenario the segment has made half a turn after 50
\* ticks, with the tip opposite its start, and a full turn after 100 ticks,
\* with the tip back at its start; isNearStart is true after tick 101, the
\* first tick on which detection is enabled, by a single transition.
C11_Scenario ==
    InScenario =>
        /\ frameCount = 50 =>
              /\ pendulums[1].angle = N(Turn \div 2)
              /\ pendulums[1].arm.x2 = String(Sub(center.x, N(10 * Milli)))
              /\ pendulums[1].arm.y2 = String(center.y)
        /\ frameCount = 100 =>
              /\ pendulums[1].angle = N(Turn)
              /\ pendulums[1].arm.x2 = String(startPoint.x)
              /\ pendulums[1].arm.y2 = String(startPoint.y)
        /\ frameCount = WarmUp + 1 => isNearStart /\ darkenCalls = 1

\* C11's case: the scenario's run right after tick 101.
C11_Witness ==
    /\ InScenario
    /\ lastEvent = "frame"
    /\ frameCount = WarmUp + 1
    /\ isNearStart

\* The tip of the latest tick, as the run's configuration gives it, less
\* startPoint.
TipOffset ==
    LET tip == TipAt(search, center, frameCount)
    IN  [x |-> Sub(tip.x, startPoint.x), y |-> Sub(tip.y, startPoint.y)]

\* The square of a distance of d units, d small.
SquareOf(d) == (d * Milli) * (d * Milli)

\* Whether a leg of an offset alone reaches 5 units.
LongLeg(v) == v <= -(Threshold * Milli) \/ v >= Threshold * Milli

\* C12: after every tick past the warm-up isNearStart is true exactly when the
\* tip is less than 5 from startPoint: a distance of exactly 5 is AWAY, and
\* the state before the tick plays no part.
C12_StrictThreshold ==
    frameCount > WarmUp =>
        LET d == TipOffset
        IN  isNearStart =
              /\ IsNum(d.x)
              /\ IsNum(d.y)
              /\ ~LongLeg(d.x.v)
              /\ ~LongLeg(d.y.v)
              /\ d.x.v * d.x.v + d.y.v * d.y.v < SquareOf(5)

\* C12's case: a tick that found the detector NEAR and the tip exactly 5 from
\* startPoint.
C12_Witness ==
    /\ lastEvent = "frame"
    /\ frameCount > WarmUp + 1
    /\ TipOffset = [x |-> N(-5 * Milli), y |-> N(0)]
    /\ ~isNearStart
    /\ resetCalls >= 1

\* Segment i as the tick counted t leaves it, from the configuration alone.
AdvancedBy(i, t) ==
    [speed |-> Built[i].speed, height |-> Built[i].height,
     width |-> Built[i].width,
     angle |-> Add(Built[i].angle, Mul(N(t), Built[i].speed))]

\* Every segment stands where frameCount ticks put it.
OneStepPerTick ==
    /\ DOMAIN pendulums = DOMAIN Built
    /\ \A i \in DOMAIN pendulums :
          /\ pendulums[i].angle = AdvancedBy(i, frameCount).angle
          /\ pendulums[i].speed = AdvancedBy(i, frameCount).speed
          /\ pendulums[i].height = AdvancedBy(i, frameCount).height
          /\ pendulums[i].width = AdvancedBy(i, frameCount).width

\* What one event does to the count and to the segments: a frame callback is
\* one tick more of the same chain, a click or a resize is the first tick of
\* a new one.
CountsItsTick ==
    \/ /\ lastEvent' = "frame"
       /\ frameCount' = frameCount + 1
       /\ DOMAIN pendulums' = DOMAIN pendulums
       /\ \A i \in DOMAIN pendulums :
             /\ pendulums'[i].angle = Add(pendulums[i].angle, pendulums[i].speed)
             /\ pendulums'[i].speed = pendulums[i].speed
             /\ pendulums'[i].height = pendulums[i].height
             /\ pendulums'[i].width = pendulums[i].width
    \/ /\ lastEvent' \in {"click", "resize"}
       /\ frameCount' = 1

\* C13: after t ticks of a run frameCount is t and every segment's angle is
\* its initial angle plus t times its speed; every event counts exactly the
\* one tick it runs, and height, speed and width stay as built.
C13_OneIntegrationPerTick == [](OneStepPerTick) /\ [][CountsItsTick]_vars

\* C13's case: a frame callback has advanced a chain of two segments whose
\* speeds differ, several ticks into the run.
C13_Witness ==
    /\ lastEvent = "frame"
    /\ frameCount > 2
    /\ Len(pendulums) = 2
    /\ IsNum(pendulums[1].speed) /\ IsNum(pendulums[2].speed)
    /\ pendulums[1].speed # pendulums[2].speed
    /\ pendulums[2].speed # N(0)
    /\ OneStepPerTick

\* The points the polyline holds, first to last.
PolylinePoints == Split(trailPath.points, " ")

\* C14: after every tick the polyline's points attribute is the trail
\* buffer's sequence, the same points in the same order, so it holds at most
\* TrailCap points and none that the buffer has evicted.
C14_PolylineIsBuffer ==
    /\ PolylinePoints = TrailBuffer
    /\ Len(PolylinePoints) <= TrailCap

\* C15: startPoint is captured once per run from the initial angles, before
\* the run's first step: in every state it is the pivot plus the sum of each
\* segment's length times (cos, sin) of its configured angle, and no tick
\* changes it.
C15_StartPointCaptured ==
    /\ [](startPoint = StartOf(search, center))
    /\ [][lastEvent' = "frame" => startPoint' = startPoint]_vars

\* C15's case: ticks have moved the tip of a two-segment chain away from
\* where it started, around a pivot away from the origin.
C15_Witness ==
    /\ lastEvent = "frame"
    /\ frameCount > 2
    /\ Len(pendulums) = 2
    /\ center.x # N(0)
    /\ IsNum(startPoint.x) /\ IsNum(startPoint.y)
    /\ TipAt(search, center, frameCount) # startPoint
    /\ TipAt(search, center, 1) # startPoint

\* C16: every segment of a started run has a length above 0 and a width
\* above 0, whether the values come from base and gap or from an explicit
\* heights or widths array.  Arrays shorter than the chain (C8) are left
\* aside.
C16_PositiveSizes ==
    ~ShortArray(search) =>
        \A i \in DOMAIN pendulums :
            /\ IsNum(pendulums[i].height) /\ pendulums[i].height.v > 0
            /\ IsNum(pendulums[i].width) /\ pendulums[i].width.v > 0

\* The pivot the current run was built around is this.center: the pivot
\* circle sits on it, the first arm starts from it and startPoint was summed
\* from it.
RunAroundCenter ==
    /\ pivot.cx = String(center.x)
    /\ pivot.cy = String(center.y)
    /\ startPoint = StartOf(search, center)
    /\ Len(pendulums) > 0 =>
          /\ pendulums[1].arm.x1 = String(center.x)
          /\ pendulums[1].arm.y1 = String(center.y)
    /\ Len(trailFillGroup) > 0 =>
          LET tip == TipAt(search, center, frameCount)
              newest == trailFillGroup[Len(trailFillGroup)]
          IN  newest.cx = String(tip.x) /\ newest.cy = String(tip.y)

\* C17: under any interleaving of resizes, clicks and frame callbacks every
\* tick computes the joints from the center that startPoint was captured
\* with; a change of center comes only with a resize, which starts a new run
\* in the same step.
C17_PivotFixed ==
    /\ [](RunAroundCenter)
    /\ [][center' # center =>
             /\ lastEvent' = "resize"
             /\ frameCount' = 1
             /\ Len(TrailBuffer') = 1]_vars

\* C17's case: a resize has moved the pivot away from the origin under a run
\* that had gone all the way to NEAR, and the new chain has segments.
C17_Witness ==
    /\ lastEvent = "resize"
    /\ prevRunNear
    /\ center.x # N(0)
    /\ Len(pendulums) > 0
    /\ pendulums[1].arm.x1 = String(center.x)

\* Exactly one callback waits in the browser's queue, and it is the one whose
\* handle the object holds, of the current run.
OnePending == rafQueue = {[id |-> animationFrameId, stale |-> FALSE]}

\* A step of the object is a reset when a click or a resize made it.
IsReset == lastEvent' \in {"click", "resize"}

\* C18: between events exactly one tick callback is pending; every tick and
\* every reset leaves one new callback in place of the one it ran or
\* cancelled; and when the browser keeps running queued callbacks and resets
\* come to an end, frameCount grows as far as the model lets it (MaxTicks).
C18_SingleTickChain ==
    /\ [](OnePending)
    /\ [][rafQueue' \cap rafQueue = {} /\ Cardinality(rafQueue') = 1]_vars
    /\ ([]<><<IsReset>>_vars \/ []<>(frameCount = MaxTicks))

\* C18's case: the chain of ticks has run on to the model's last tick, each
\* one having queued the next.
C18_Witness ==
    /\ lastEvent = "frame"
    /\ frameCount = MaxTicks
    /\ OnePending

\* C19: the pivot circle shows the round state: it has fill #000000 and
\* radius 6 exactly when isNearStart is true, and fill #999 and radius 4
\* otherwise, also right after a reset issued while the run was NEAR.
C19_PivotShowsRound ==
    /\ isNearStart => pivot.fill = "#000000" /\ pivot.r = "6"
    /\ ~isNearStart => pivot.fill = "#999" /\ pivot.r = "4"

\* C19's case: a click or a resize has reset a run that was NEAR, its pivot
\* emphasized.
C19_Witness ==
    /\ lastEvent \in {"click", "resize"}
    /\ prevRunNear
    /\ ~isNearStart
    /\ pivot.fill = "#999"

=============================================================================
